---- MODULE Spec2Model ----
(***************************************************************************)
(* Model of diatherm: MethodFile.update_windows / MethodFile.save          *)
(* (src/diatherm/methods.py) and modifications.add_windows                 *)
(* (src/diatherm/modifications.py).                                        *)
(*                                                                         *)
(* Representation.                                                         *)
(*  - A Python str holding a method text is kept as the record             *)
(*    [lines, fill]: the "\r\n"-terminated lines of the text in order,     *)
(*    followed by `fill` trailing blanks (what str.ljust appends).         *)
(*  - A float m/z is the integer k standing for k/32.  Every such value    *)
(*    is an exact binary float, so str() and the "15.4f" format are        *)
(*    computed exactly (the latter rounds ties to even).                   *)
(*  - An argument that may be "a value or a list of values" is a tagged    *)
(*    record, Scalar(v) or List(s).                                        *)
(*  - A raised exception is the record [type, msg]; NoError is a normal    *)
(*    return.                                                              *)
(***************************************************************************)
EXTENDS Integers, Sequences, FiniteSets, TLC

VARIABLES
    data,        \* MethodFile.data
    _file_obj,   \* MethodFile._file_obj, the container bytes read at construction
    disk,        \* content of the file MethodFile.save wrote last
    err,         \* outcome of the last call
    op,          \* the last call: "new", "update_windows", "save", "add_windows"
    prev,        \* MethodFile.data before the last update_windows call
    args,        \* arguments of the last call
    template,    \* children of <MassList> in data/template.xml
    tree         \* children of <MassList> in the tree add_windows returned last

vars == <<data, _file_obj, disk, err, op, prev, args, template, tree>>

-----------------------------------------------------------------------------
(* Bounds *)

MaxLines == 4      \* lines of a template method text
MaxWindows == 2    \* length of the mass and charge lists passed in
MaxRecords == 1    \* records already present in the template document

-----------------------------------------------------------------------------
(* Generic helpers *)

Max(a, b) == IF a >= b THEN a ELSE b

SeqsUpTo(S, n) == UNION {[1..k -> S] : k \in 0..n}

RECURSIVE Repeat(_, _)
Repeat(s, n) == IF n <= 0 THEN <<>> ELSE s \o Repeat(s, n - 1)

RECURSIVE Spaces(_)
\* n blanks
Spaces(n) ==
    IF n <= 0 THEN ""
    ELSE LET half == Spaces(n \div 2)
         IN  half \o half \o (IF n % 2 = 1 THEN " " ELSE "")

RECURSIVE Zeros(_)
Zeros(n) == IF n <= 0 THEN "" ELSE "0" \o Zeros(n - 1)

RECURSIVE SumLen(_)
SumLen(ls) == IF ls = <<>> THEN 0 ELSE Len(Head(ls)) + SumLen(Tail(ls))

Scalar(v) == [tag |-> "scalar", val |-> v]
List(s) == [tag |-> "list", items |-> s]

NoError == [type |-> "None", msg |-> ""]
Raise(t, m) == [type |-> t, msg |-> m]

-----------------------------------------------------------------------------
(* Python's number formatting *)

Digit(d) ==
    CASE d = 0 -> "0" [] d = 1 -> "1" [] d = 2 -> "2" [] d = 3 -> "3"
      [] d = 4 -> "4" [] d = 5 -> "5" [] d = 6 -> "6" [] d = 7 -> "7"
      [] d = 8 -> "8" [] d = 9 -> "9"

RECURSIVE NatStr(_)
NatStr(n) == IF n < 10 THEN Digit(n) ELSE NatStr(n \div 10) \o Digit(n % 10)

\* str(int) and the "d" presentation type
IntStr(i) == IF i < 0 THEN "-" \o NatStr(-i) ELSE NatStr(i)

\* the minimum field width of a format spec: right-justify, never truncate
Field(s, w) == Spaces(w - Len(s)) \o s

\* n written with exactly w digits (n < 10^w)
FixedDigits(n, w) == Zeros(w - Len(NatStr(n))) \o NatStr(n)

RECURSIVE StripZeros(_, _)
\* the digits of the w-digit fraction n without trailing zeros, at least one
StripZeros(n, w) ==
    IF w > 1 /\ n % 10 = 0 THEN StripZeros(n \div 10, w - 1)
    ELSE FixedDigits(n, w)

\* str(float) of k/32, k >= 0: the shortest repr is the exact expansion
FloatStr(k) == NatStr(k \div 32) \o "." \o StripZeros((k % 32) * 3125, 5)

\* k/32 in units of 1e-4, rounded half to even (k/32 * 1e4 = k * 625 / 2)
Round4(k) ==
    LET n == k * 625
        q == n \div 2
    IN  IF n % 2 = 0 THEN q
        ELSE IF q % 2 = 0 THEN q ELSE q + 1

\* f"{mass:15.4f}" for mass = k/32, k >= 0
Format15_4f(k) ==
    LET t == Round4(k)
    IN  Field(NatStr(t \div 10000) \o "." \o FixedDigits(t % 10000, 4), 15)

\* f"{charge:15d}"
Format15d(z) == Field(IntStr(z), 15)

-----------------------------------------------------------------------------
(* utils.listify *)

listify(obj) == IF obj.tag = "list" THEN obj.items ELSE <<obj.val>>

-----------------------------------------------------------------------------
(* methods.py *)

ms2_key == "\tExperiment Name = tMS2\r\n"
n_windows_key == "\t\t\tN (Number of Spectra) = "
mass_list_start_key == ">>>>>>>>>>>>> Mass List Table <<<<<<<<<<<<<<\r\n"
mass_list_end_key == ">>>>>>>>>>>>> End Mass List Table <<<<<<<<<<<<<<\r\n"

_make_row(mass, charge) ==
    LET prefix == "               |               |    (no adduct)"
        suffix == "\r\n"
    IN  prefix \o "|" \o Format15_4f(mass) \o "|" \o Format15d(charge)
            \o "|" \o suffix

\* str.splitlines(True)
splitlines(d) == d.lines \o (IF d.fill > 0 THEN <<Spaces(d.fill)>> ELSE <<>>)

\* len(str)
strlen(d) == SumLen(d.lines) + d.fill

\* "".join(lines): a blank, unterminated last line is the fill
join(ls) ==
    IF ls # <<>> /\ ls[Len(ls)] = Spaces(Len(ls[Len(ls)]))
    THEN [lines |-> SubSeq(ls, 1, Len(ls) - 1), fill |-> Len(ls[Len(ls)])]
    ELSE [lines |-> ls, fill |-> 0]

\* str.ljust(width)
ljust(d, width) == [d EXCEPT !.fill = @ + Max(0, width - strlen(d))]

\* list.index(x), 0-based; -1 stands for the ValueError
RECURSIVE index_from(_, _, _)
index_from(ls, x, i) ==
    IF i > Len(ls) THEN -1
    ELSE IF ls[i] = x THEN i - 1
    ELSE index_from(ls, x, i + 1)

index(ls, x) == index_from(ls, x, 1)

\* ls[a:b] for 0 <= a, 0 <= b
slice(ls, a, b) ==
    IF a >= b \/ a >= Len(ls) THEN <<>>
    ELSE SubSeq(ls, a + 1, IF b > Len(ls) THEN Len(ls) ELSE b)

\* zip(a, b): as long as the shorter list
zip(a, b) ==
    [i \in 1..(IF Len(a) <= Len(b) THEN Len(a) ELSE Len(b)) |-> <<a[i], b[i]>>]

\* a mutation of broadcast: the single charge is not repeated
broadcast_once(charge, n) == charge

\* charge = charge * len(mass) when len(charge) == 1
broadcast(charge, n) == IF Len(charge) = 1 THEN Repeat(charge, n) ELSE charge

AttributeError ==
    Raise("AttributeError", "'str' object has no attribute 'starts_with'")

\* The loop over lines[ms2_idx:mass_start].  Its first statement evaluates
\* line.starts_with, which str does not have (the method is startswith), so
\* the first line visited raises and the substitutions are never reached.
rewrite_parameters(new_lines, block) ==
    IF block = <<>>
    THEN [err |-> NoError, new_lines |-> new_lines]
    ELSE [err |-> AttributeError, new_lines |-> new_lines]

\* The body of update_windows up to "".join(new_lines): the exception
\* raised, and new_lines as far as it was built (lines when it was not begun)
rewrite(self_data, mass_arg, charge_arg, isolation_width) ==
    LET lines == splitlines(self_data)
        mass == listify(mass_arg)
        charge == listify(charge_arg)
        ms2_idx == index(lines, ms2_key)
        mass_start == index(lines, mass_list_start_key) + 1
        mass_end == index(lines, mass_list_end_key)
        looped == rewrite_parameters(slice(lines, 0, ms2_idx),
                                     slice(lines, ms2_idx, mass_start))
        pairs == zip(mass, broadcast(charge, Len(mass)))
        rows == [i \in DOMAIN pairs |-> _make_row(pairs[i][1], pairs[i][2])]
    IN  IF ms2_idx = -1 \/ mass_start = 0 \/ mass_end = -1
        THEN [err |-> Raise("ValueError", "x not in list"),
              new_lines |-> lines]
        ELSE IF Len(mass) > mass_end - mass_start
        THEN [err |-> Raise("ValueError",
                  "The number of windows exceeds that in the template."),
              new_lines |-> lines]
        ELSE IF looped.err # NoError
        THEN looped
        ELSE [err |-> NoError,
              new_lines |-> looped.new_lines \o rows
                                \o slice(lines, mass_end, Len(lines))]

\* a mutation of update_windows: self.data is assigned whatever was built
update_windows_eager(self_data, mass_arg, charge_arg, isolation_width) ==
    LET r == rewrite(self_data, mass_arg, charge_arg, isolation_width)
    IN  [err |-> r.err,
         data |-> ljust(join(r.new_lines), strlen(self_data))]

\* MethodFile.update_windows: the exception raised and the value of
\* self.data when the call ends; self.data is assigned by the last statement
update_windows(self_data, mass_arg, charge_arg, isolation_width) ==
    LET r == rewrite(self_data, mass_arg, charge_arg, isolation_width)
    IN  [err |-> r.err,
         data |-> IF r.err = NoError
                  THEN ljust(join(r.new_lines), strlen(self_data))
                  ELSE self_data]

-----------------------------------------------------------------------------
(* modifications.py *)

\* one <MassListRecord> with its four children
MassListRecord(name, formula, mz, z) ==
    [CompoundName |-> name, Formula |-> formula, MOverZ |-> mz, Z |-> z]

RECURSIVE append_records_from0(_, _, _)
\* a mutation of append_records: the label is idx, not idx + 1
append_records_from0(mass_list, pairs, idx) ==
    IF idx >= Len(pairs) THEN mass_list
    ELSE append_records_from0(
            Append(mass_list,
                   MassListRecord("DIA " \o IntStr(idx), "",
                                  FloatStr(pairs[idx + 1][1]),
                                  IntStr(pairs[idx + 1][2]))),
            pairs, idx + 1)

RECURSIVE append_records(_, _, _)
\* the for loop over enumerate(zip(m_over_z, charge)), from position idx on
append_records(mass_list, pairs, idx) ==
    IF idx >= Len(pairs) THEN mass_list
    ELSE append_records(
            Append(mass_list,
                   MassListRecord("DIA " \o IntStr(idx + 1), "",
                                  FloatStr(pairs[idx + 1][1]),
                                  IntStr(pairs[idx + 1][2]))),
            pairs, idx + 1)

\* add_windows: the children of <MassList> in the returned tree, which is
\* parsed anew from TEMPLATE on every call
add_windows(TEMPLATE, m_over_z_arg, charge_arg) ==
    LET m_over_z == listify(m_over_z_arg)
        charge0 == listify(charge_arg)
        charge == IF Len(charge0) = 1
                  THEN Repeat(charge0, Len(m_over_z))
                  ELSE charge0
    IN  append_records(TEMPLATE, zip(m_over_z, charge), 0)

-----------------------------------------------------------------------------
(* Inputs *)

Centers == {12833, 16003}          \* 401.03125 and 500.09375
Charges == {2, 3}
Widths == {4}
Filenames == {"out.meth"}

MassArgs == {Scalar(c) : c \in Centers}
                \cup {List(s) : s \in SeqsUpTo(Centers, MaxWindows)}
\* a charge, a list of equal charges, or one list of different charges
ChargeArgs == {Scalar(z) : z \in Charges}
                \cup {List(Repeat(<<z>>, k)) : z \in Charges, k \in 0..MaxWindows}
                \cup {List(<<2, 3>>)}

\* lines a template method text is made of
TemplateLines ==
    {ms2_key, n_windows_key \o "10\r\n", mass_list_start_key,
     mass_list_end_key, _make_row(12833, 2)}

Texts == {[lines |-> s, fill |-> 0] : s \in SeqsUpTo(TemplateLines, MaxLines)}

\* a record the template document may already hold
PriorRecord == MassListRecord("template", "", "1.0", "1")

Templates == SeqsUpTo({PriorRecord}, MaxRecords)

NoArgs == [mass |-> List(<<>>), charge |-> List(<<>>), width |-> 0]
NoText == [lines |-> <<>>, fill |-> 0]

-----------------------------------------------------------------------------
(* The method file: a MethodFile whose stream decoded to `data` *)

Init ==
    /\ data \in Texts
    /\ _file_obj = "container"
    /\ disk = "absent"
    /\ err = NoError
    /\ op = "new"
    /\ prev = data
    /\ args = NoArgs
    /\ template = <<>>
    /\ tree = <<>>

\* An exception nobody catches ends the run: calls are made while none was
\* raised.  A text that outgrew MaxLines is not edited again.
Running == err = NoError

UpdateWindows(mass, charge, isolation_width) ==
    /\ Running
    /\ Len(data.lines) <= MaxLines
    /\ \E r \in {update_windows(data, mass, charge, isolation_width)} :
            /\ data' = r.data
            /\ err' = r.err
    /\ op' = "update_windows"
    /\ prev' = data
    /\ args' = [mass |-> mass, charge |-> charge, width |-> isolation_width]
    /\ UNCHANGED <<_file_obj, disk, template, tree>>

\* MethodFile.save: open(filename, "w+") creates or empties the file, then
\* out.write(self._file_obj) is handed bytes by a text-mode file and raises;
\* write_stream is not reached
Save(filename) ==
    /\ Running
    /\ disk' = ""
    /\ err' = Raise("TypeError", "write() argument must be str, not bytes")
    /\ op' = "save"
    /\ prev' = data
    /\ args' = NoArgs
    /\ UNCHANGED <<data, _file_obj, template, tree>>

Next ==
    \/ \E m \in MassArgs, c \in ChargeArgs, w \in Widths :
            UpdateWindows(m, c, w)
    \/ \E f \in Filenames : Save(f)

Spec == Init /\ [][Next]_vars

-----------------------------------------------------------------------------
(* The window document *)

InitDoc ==
    /\ template \in Templates
    /\ tree = <<>>
    /\ err = NoError
    /\ op = "new"
    /\ args = NoArgs
    /\ data = NoText
    /\ prev = NoText
    /\ _file_obj = "container"
    /\ disk = "absent"

AddWindows(m_over_z, charge) ==
    /\ tree' = add_windows(template, m_over_z, charge)
    /\ err' = NoError
    /\ op' = "add_windows"
    /\ args' = [mass |-> m_over_z, charge |-> charge, width |-> 0]
    /\ UNCHANGED <<template, data, prev, _file_obj, disk>>

NextDoc == \E m \in MassArgs, c \in ChargeArgs : AddWindows(m, c)

SpecDoc == InitDoc /\ [][NextDoc]_vars

-----------------------------------------------------------------------------
(* Vocabulary of the properties *)

RECURSIVE count(_, _)
\* how many lines of ls equal x
count(ls, x) ==
    IF ls = <<>> THEN 0
    ELSE (IF Head(ls) = x THEN 1 ELSE 0) + count(Tail(ls), x)

\* 1-based position of the first line equal to x, 0 when there is none
pos(d, x) == index(d.lines, x) + 1

HasTable(d) ==
    /\ pos(d, mass_list_start_key) > 0
    /\ pos(d, mass_list_end_key) > 0

HasMarkers(d) == pos(d, ms2_key) > 0 /\ HasTable(d)

\* one experiment marker, then the table start marker, then the end marker
WellFormed(d) ==
    /\ count(d.lines, ms2_key) = 1
    /\ HasMarkers(d)
    /\ pos(d, ms2_key) < pos(d, mass_list_start_key)
    /\ pos(d, mass_list_start_key) < pos(d, mass_list_end_key)

\* the lines strictly between the table markers
Region(d) ==
    SubSeq(d.lines, pos(d, mass_list_start_key) + 1,
           pos(d, mass_list_end_key) - 1)

Capacity(d) == pos(d, mass_list_end_key) - pos(d, mass_list_start_key) - 1

Updated == op = "update_windows"
Centres == listify(args.mass)
Given == listify(args.charge)

\* the charge of window i: the single value given, or the i-th of the list
ChargeOf(i) == IF Len(Given) = 1 THEN Given[1] ELSE Given[i]

ChargesFit == Len(Given) = 1 \/ Len(Given) = Len(Centres)

CapacityError ==
    Raise("ValueError", "The number of windows exceeds that in the template.")

-----------------------------------------------------------------------------
(* Properties *)

\* C1: on a text with one tMS2 marker followed by the table start and end
\* markers, update_windows with no more centres than the table has rows
\* succeeds; afterwards every N (Number of Spectra) line of the experiment
\* block carries the number of centres and the lines between the table
\* markers are one row per centre, in the order given.
C1_UpdateRewritesTable ==
    (Updated /\ WellFormed(prev) /\ ChargesFit
        /\ Len(Centres) <= Capacity(prev))
    => /\ err = NoError
       /\ HasMarkers(data)
       /\ Region(data) =
            [i \in 1..Len(Centres) |-> _make_row(Centres[i], ChargeOf(i))]
       /\ \A i \in 1..Len(prev.lines) :
            (/\ pos(prev, ms2_key) < i
             /\ i < pos(prev, mass_list_start_key)
             /\ prev.lines[i] = n_windows_key \o "10\r\n")
            => /\ i <= Len(data.lines)
               /\ data.lines[i] =
                    n_windows_key \o IntStr(Len(Centres)) \o "\r\n"

\* C2: after an update_windows call that returned normally the text is as
\* long as it was before the call.
C2_PaddingLaw ==
    (Updated /\ err = NoError) => strlen(data) = strlen(prev)

\* C3: on a well-formed text, update_windows with exactly as many centres as
\* there are lines between the table markers succeeds, and with one more it
\* fails with the capacity error.
C3_CapacityBoundary ==
    (Updated /\ WellFormed(prev))
    => /\ (Len(Centres) = Capacity(prev) /\ ChargesFit) => err = NoError
       /\ Len(Centres) = Capacity(prev) + 1 => err = CapacityError

\* C4: update_windows on a text that holds no tMS2 marker, or more than one,
\* raises an error; it does not go on with one of the markers.
C4_AmbiguousMarkerRejected ==
    (Updated /\ count(prev.lines, ms2_key) # 1) => err # NoError

\* C5: add_windows given several charges, and not as many as there are
\* centres, fails; it returns no document.
C5_ChargeMismatchRejected ==
    (op = "add_windows" /\ ~ChargesFit) => err # NoError

\* C6: add_windows with a scalar charge z returns the template's records
\* followed by one record per centre, in the order given: the k-th has the
\* label "DIA k", an empty formula, the k-th centre and z.
C6_DocumentOrderPreserved ==
    (op = "add_windows" /\ args.charge.tag = "scalar")
    => /\ Len(tree) = Len(template) + Len(Centres)
       /\ SubSeq(tree, 1, Len(template)) = template
       /\ \A k \in 1..Len(Centres) :
            tree[Len(template) + k] =
                MassListRecord(
                    CASE k = 1 -> "DIA 1" [] k = 2 -> "DIA 2"
                      [] k = 3 -> "DIA 3" [] OTHER -> "DIA " \o IntStr(k),
                    "",
                    CASE Centres[k] = 12833 -> "401.03125"
                      [] Centres[k] = 16003 -> "500.09375",
                    CASE args.charge.val = 2 -> "2"
                      [] args.charge.val = 3 -> "3")

\* C6 witness: a scalar charge, two different centres, a template that
\* already holds a record
C6_Witness ==
    /\ op = "add_windows"
    /\ args.charge.tag = "scalar"
    /\ Len(Centres) >= 2
    /\ Centres[1] # Centres[2]
    /\ Len(template) >= 1
    /\ Len(tree) = Len(template) + Len(Centres)

\* C7: update_windows called with the one-element charge list [z] ends as
\* the call with [z] * len(centres) on the same text does: the same
\* exception or none, and the same text.
C7_ChargeBroadcast ==
    (Updated /\ args.charge.tag = "list" /\ Len(Given) = 1)
    => LET r == update_windows(prev, args.mass,
                               List(Repeat(Given, Len(Centres))), args.width)
       IN  r.err = err /\ r.data = data

\* C7 witness: a successful call with [z] and two centres that wrote rows
C7_Witness ==
    /\ Updated
    /\ err = NoError
    /\ args.charge.tag = "list"
    /\ Len(Given) = 1
    /\ Len(Centres) >= 2
    /\ HasTable(data)
    /\ Len(Region(data)) >= 2
    /\ data # prev

C9_Frame ==
    (Updated /\ err = NoError /\ ChargesFit)
    => LET s == pos(prev, mass_list_start_key)
           e == pos(prev, mass_list_end_key)
           n == Len(Centres)
       IN  /\ Len(data.lines) = s + n + (Len(prev.lines) - e + 1)
           /\ SubSeq(data.lines, 1, s) = SubSeq(prev.lines, 1, s)
           /\ SubSeq(data.lines, s + n + 1, Len(data.lines))
                = SubSeq(prev.lines, e, Len(prev.lines))

\* C10: after a successful update_windows with n centres exactly n lines
\* stand between the table markers, and no more than stood there before.
C10_CapacityNeverGrows ==
    (Updated /\ err = NoError /\ ChargesFit)
    => /\ HasTable(data)
       /\ Capacity(data) = Len(Centres)
       /\ Capacity(data) <= Capacity(prev)

====
